---- MODULE Spec2Model ----
(***************************************************************************)
(* train_model of src/learning/learning_controller.py as a state machine.  *)
(*                                                                         *)
(* The procedure is sequential: pc is the source line it is about to       *)
(* execute.  The environment (TradingEnvironment) and the agent (dqn.DQN)  *)
(* are collaborators whose code is not part of the controller; every call  *)
(* to them returns a value drawn from a small set, or raises.  What the    *)
(* collaborators saw (the calls they received and their arguments) is kept *)
(* in the variables under "collaborators" below.                           *)
(***************************************************************************)
EXTENDS Integers, Sequences, FiniteSets

VARIABLES
    \* ---- train_model: position and locals
    pc, data, state_size, episodeIter, episode, stepIter, step,
    state, action, next_state, reward, done, now, timestamp, path, result,
    \* ---- collaborators: what the environment, the agent and the clock saw.
    \* A call is recorded when the collaborator receives it, whether it then
    \* returns or raises.
    \*   scenario     which collaborators the run is wired to
    \*   inputData    the columns of the DataFrame train_model was called with
    \*   envs, agents the arguments of every constructor call
    \*   sizeQueries  number of env._get_state() calls
    \*   resets       number of env.reset() calls of the run
    \*   envLast      the state the environment returned last (reset or step)
    \*   epActs, epSteps, epRemembers
    \*                act / env.step / remember calls received since the last
    \*                env.reset call was received
    \*   doneAt       index of the first env.step call since the last reset
    \*                call that returned done=True (0: none yet)
    \*   log          the calls received in the current iteration of the step
    \*                loop, with what they returned when they returned
    \*   memLen       len(model.memory)
    \*   trained      replay updates the counting agent has completed
    \*   saved        the paths save_model received in this run
    \*   error        the call that raised ("": none)
    \*   clock        the last reading of the wall clock, in ticks; run,
    \*                prevPaths: runs of the process
    \*                so far and the artifact paths the earlier ones wrote
    scenario, inputData, envs, sizeQueries, agents, resets, envLast,
    epActs, epSteps, epRemembers, doneAt, log, memLen, trained, saved,
    error, clock, run, prevPaths

locals == <<data, state_size, episodeIter, episode, stepIter, step,
            state, action, next_state, reward, done, now, timestamp, path, result>>
setupObs == <<envs, sizeQueries, agents>>
episodeObs == <<resets, envLast, epActs, epSteps, epRemembers, doneAt, log>>
agentObs == <<memLen, trained, saved>>
runObs == <<scenario, inputData, clock, run, prevPaths>>
vars == <<pc, locals, setupObs, episodeObs, agentObs, runObs, error>>

\* ---- program constants
NUM_EPISODES == 10
MAX_STEPS == 10
BATCH_SIZE == 64
ACTION_SIZE == 3

\* ---- bounds of the model
NStates == 2
MaxClock == 3
TicksPerSecond == 2
MaxRuns == 2

None == -1
NoPath == <<>>

\* The value sets the collaborators answer from.  "stub" collaborators answer
\* anything; the "counting" scenario fixes the observation, reward and action
\* and leaves only the termination flag open.
States == 0 .. (NStates - 1)
Rewards == {0, 1}
Actions == 0 .. (ACTION_SIZE - 1)
Samples == {<<0>>, <<0, 0>>}
DataSets == {{"close", "target"}, {"close"}}
MemLens == {BATCH_SIZE - 1, BATCH_SIZE, BATCH_SIZE + 1}

StatesOf(k) == IF k = "stub" THEN States ELSE {0}
RewardsOf(k) == IF k = "stub" THEN Rewards ELSE {0}
ActionsOf(k) == IF k = "stub" THEN Actions ELSE {0}
SamplesOf(k) == IF k = "stub" THEN Samples ELSE {<<0>>}

\* The agent's memory after one more remember: the counting agent appends one
\* entry, the stub reports any length around the threshold.
MemoryAfterRemember(k, n) == IF k = "counting" THEN {n + 1} ELSE MemLens

\* Updates the agent has performed after one more replay (the stub has none).
TrainedAfterReplay(k, n) == IF k = "counting" THEN n + 1 ELSE n

\* ---- pure helpers of train_model
\* data.drop(columns=["target"])
DropTarget(d) == d \ {"target"}

\* now.strftime("%Y-%m-%d_%H-%M-%S"): the sub-second part is dropped
Strftime(t) == t \div TicksPerSecond

\* f"src/learning/trained_models/dqn_model_{timestamp}.h5"
PathOf(ts) == <<"src/learning/trained_models/dqn_model_", ts, ".h5">>

\* A threshold test that already fires at BATCH_SIZE entries.
ShouldReplayAtThreshold(n) == n >= BATCH_SIZE

\* len(model.memory) > BATCH_SIZE
ShouldReplay(n) == n > BATCH_SIZE

\* ---- the calls the collaborators record
ActCall(s, a) == [op |-> "act", state |-> s, ret |-> a]
StepCall(a, ns, r, d) ==
    [op |-> "step", action |-> a, next_state |-> ns, reward |-> r, done |-> d]
RememberCall(s, a, r, ns, d) ==
    [op |-> "remember", state |-> s, action |-> a, reward |-> r,
     next_state |-> ns, done |-> d]
ReplayCall(b) == [op |-> "replay", batch_size |-> b]
\* act and env.step calls that raised: received, nothing returned
ActRaised(s) == [op |-> "act", state |-> s]
StepRaised(a) == [op |-> "step", action |-> a]

\* An exception that is caught and the failed line run again.
PropagateRetry(call) ==
    /\ pc' = pc
    /\ error' = call

\* An exception of a collaborator propagates: train_model has no try/except.
Propagate(call) ==
    /\ pc' = "raised"
    /\ error' = call

\* The exception leaves train_model: no local is assigned by the failed line.
Raise(call) ==
    /\ Propagate(call)
    /\ UNCHANGED <<locals, runObs>>

\* ---- state after construction: train_model(data) has just been called
InitRun ==
    /\ pc = "L48"
    /\ data = inputData
    /\ state_size = None
    /\ episodeIter = 0
    /\ episode = None
    /\ stepIter = 0
    /\ step = None
    /\ state = None
    /\ action = None
    /\ next_state = None
    /\ reward = None
    /\ done = FALSE
    /\ now = None
    /\ timestamp = None
    /\ path = NoPath
    /\ result = NoPath
    /\ envs = <<>>
    /\ sizeQueries = 0
    /\ agents = <<>>
    /\ resets = 0
    /\ envLast = None
    /\ epActs = 0
    /\ epSteps = 0
    /\ epRemembers = 0
    /\ doneAt = 0
    /\ log = <<>>
    /\ memLen = 0
    /\ trained = 0
    /\ saved = <<>>
    /\ error = ""

Init ==
    /\ scenario = "stub"
    /\ inputData \in DataSets
    /\ clock = 0
    /\ run = 1
    /\ prevPaths = {}
    /\ InitRun

\* ---- line 48: data = data.drop(columns=["target"])
Drop ==
    /\ pc = "L48"
    /\ IF "target" \in data
       THEN /\ data' = DropTarget(data)
            /\ pc' = "L52"
            /\ UNCHANGED <<state_size, episodeIter, episode, stepIter, step,
                           state, action, next_state, reward, done, now,
                           timestamp, path, result, error>>
            /\ UNCHANGED <<setupObs, episodeObs, agentObs, runObs>>
       ELSE /\ Raise("drop")
            /\ UNCHANGED <<setupObs, episodeObs, agentObs>>

\* The environment built from the data as it came in, label column included.
EnvArgWithTarget(d) == d \cup {"target"}

\* ---- line 52: env = TradingEnvironment(data)
EnvArg(d) == d

MakeEnv ==
    /\ pc = "L52"
    /\ envs' = Append(envs, EnvArg(data))
    /\ UNCHANGED <<sizeQueries, agents, episodeObs, agentObs>>
    /\ \/ /\ pc' = "L55"
          /\ UNCHANGED <<locals, runObs, error>>
       \/ Raise("TradingEnvironment")

\* ---- lines 55-56: state_size = len(env._get_state()); action_size = 3
GetStateSize ==
    /\ pc = "L55"
    /\ sizeQueries' = sizeQueries + 1
    /\ UNCHANGED <<envs, agents, episodeObs, agentObs>>
    /\ \/ \E sample \in SamplesOf(scenario) :
            /\ state_size' = Len(sample)
            /\ pc' = "L60"
            /\ UNCHANGED <<data, episodeIter, episode, stepIter, step,
                           state, action, next_state, reward, done, now,
                           timestamp, path, result, error>>
            /\ UNCHANGED runObs
       \/ Raise("_get_state")

\* ---- line 60: model = dqn.DQN(state_size, action_size)
AgentArgs(ss) == <<ss, ACTION_SIZE>>

MakeAgent ==
    /\ pc = "L60"
    /\ agents' = Append(agents, AgentArgs(state_size))
    /\ UNCHANGED <<envs, sizeQueries, episodeObs, agentObs>>
    /\ \/ /\ pc' = "L64"
          /\ UNCHANGED <<locals, runObs, error>>
       \/ Raise("DQN")

\* An episode loop that resets the environment for the first episode only.
ForEpisodeResetOnce ==
    /\ pc = "L64"
    /\ IF episodeIter < NUM_EPISODES
       THEN /\ episode' = episodeIter
            /\ episodeIter' = episodeIter + 1
            /\ pc' = IF episodeIter = 0 THEN "L66" ELSE "L68"
       ELSE /\ pc' = "L86"
            /\ UNCHANGED <<episode, episodeIter>>
    /\ UNCHANGED <<data, state_size, stepIter, step, state, action,
                   next_state, reward, done, now, timestamp, path, result>>
    /\ UNCHANGED <<setupObs, episodeObs, agentObs, runObs, error>>

\* ---- line 64: for episode in range(NUM_EPISODES)
MoreEpisodes(i) == i < NUM_EPISODES

ForEpisode ==
    /\ pc = "L64"
    /\ IF MoreEpisodes(episodeIter)
       THEN /\ episode' = episodeIter
            /\ episodeIter' = episodeIter + 1
            /\ pc' = "L66"
       ELSE /\ pc' = "L86"
            /\ UNCHANGED <<episode, episodeIter>>
    /\ UNCHANGED <<data, state_size, stepIter, step, state, action,
                   next_state, reward, done, now, timestamp, path, result>>
    /\ UNCHANGED <<setupObs, episodeObs, agentObs, runObs, error>>

\* ---- line 66: state = env.reset()
Reset ==
    /\ pc = "L66"
    /\ resets' = resets + 1
    /\ epActs' = 0
    /\ epSteps' = 0
    /\ epRemembers' = 0
    /\ doneAt' = 0
    /\ log' = <<>>
    /\ UNCHANGED <<setupObs, agentObs>>
    /\ \/ \E s \in StatesOf(scenario) :
            /\ state' = s
            /\ envLast' = s
            /\ pc' = "L68"
            /\ UNCHANGED <<data, state_size, episodeIter, episode, stepIter,
                           step, action, next_state, reward, done, now,
                           timestamp, path, result, error>>
            /\ UNCHANGED runObs
       \/ /\ Raise("reset")
          /\ UNCHANGED envLast

\* A step loop that runs one step too many.
MoreStepsOffByOne(i) == i <= MAX_STEPS

\* ---- line 68: for step in range(MAX_STEPS)
MoreSteps(i) == i < MAX_STEPS

ForStep ==
    /\ pc = "L68"
    /\ IF MoreSteps(stepIter)
       THEN /\ step' = stepIter
            /\ stepIter' = stepIter + 1
            /\ pc' = "L70"
       ELSE /\ stepIter' = 0
            /\ pc' = "L64"
            /\ UNCHANGED step
    /\ UNCHANGED <<data, state_size, episodeIter, episode, state, action,
                   next_state, reward, done, now, timestamp, path, result>>
    /\ UNCHANGED <<setupObs, episodeObs, agentObs, runObs, error>>

\* ---- line 70: action = model.act(state)
ActArg(s) == s

Act ==
    /\ pc = "L70"
    /\ epActs' = epActs + 1
    /\ UNCHANGED <<resets, envLast, epSteps, epRemembers, doneAt>>
    /\ UNCHANGED <<setupObs, agentObs>>
    /\ \/ \E a \in ActionsOf(scenario) :
            /\ action' = a
            /\ log' = <<ActCall(ActArg(state), a)>>
            /\ pc' = "L71"
            /\ UNCHANGED <<data, state_size, episodeIter, episode, stepIter,
                           step, state, next_state, reward, done, now,
                           timestamp, path, result, error>>
            /\ UNCHANGED runObs
       \/ /\ log' = <<ActRaised(ActArg(state))>>
          /\ Raise("act")

\* ---- line 71: next_state, reward, done = env.step(action)
EnvStep ==
    /\ pc = "L71"
    /\ epSteps' = epSteps + 1
    /\ UNCHANGED <<resets, epActs, epRemembers>>
    /\ UNCHANGED <<setupObs, agentObs>>
    /\ \/ \E ns \in StatesOf(scenario), r \in RewardsOf(scenario), d \in BOOLEAN :
            /\ next_state' = ns
            /\ reward' = r
            /\ done' = d
            /\ log' = Append(log, StepCall(action, ns, r, d))
            /\ envLast' = ns
            /\ doneAt' = IF d /\ doneAt = 0 THEN epSteps + 1 ELSE doneAt
            /\ pc' = "L74"
            /\ UNCHANGED <<data, state_size, episodeIter, episode, stepIter,
                           step, state, action, now, timestamp, path, result,
                           error>>
            /\ UNCHANGED runObs
       \/ /\ log' = Append(log, StepRaised(action))
          /\ Raise("step")
          /\ UNCHANGED <<envLast, doneAt>>

\* The transition recorded after the state was already advanced.
RememberArgsAdvanced(s, a, r, ns, d) == RememberCall(ns, a, r, ns, d)

\* ---- line 74: model.remember(state, action, reward, next_state, done)
RememberArgs(s, a, r, ns, d) == RememberCall(s, a, r, ns, d)

Remember ==
    /\ pc = "L74"
    /\ log' = Append(log, RememberArgs(state, action, reward, next_state, done))
    /\ epRemembers' = epRemembers + 1
    /\ UNCHANGED <<resets, envLast, epActs, epSteps, doneAt>>
    /\ UNCHANGED <<setupObs, trained, saved>>
    /\ \/ \E n \in MemoryAfterRemember(scenario, memLen) :
            /\ memLen' = n
            /\ pc' = "L77"
            /\ UNCHANGED <<locals, runObs, error>>
       \/ /\ Raise("remember")
          /\ UNCHANGED memLen

\* ---- line 77: if len(model.memory) > BATCH_SIZE
CheckMemory ==
    /\ pc = "L77"
    /\ pc' = IF ShouldReplay(memLen) THEN "L78" ELSE "L80"
    /\ UNCHANGED <<locals, setupObs, episodeObs, agentObs, runObs, error>>

\* ---- line 78: model.replay(BATCH_SIZE)
ReplayArg == BATCH_SIZE

Replay ==
    /\ pc = "L78"
    /\ log' = Append(log, ReplayCall(ReplayArg))
    /\ UNCHANGED <<resets, envLast, epActs, epSteps, epRemembers, doneAt>>
    /\ UNCHANGED <<setupObs, memLen, saved>>
    /\ \/ /\ trained' = TrainedAfterReplay(scenario, trained)
          /\ pc' = "L80"
          /\ UNCHANGED <<locals, runObs, error>>
       \/ /\ Raise("replay")
          /\ UNCHANGED trained

\* A loop that never advances the state / never breaks on done.
NextStateStale(s, ns) == s
BreakNever(d) == FALSE

\* ---- lines 80-83: state = next_state; if done: break
NextState(s, ns) == ns
Break(d) == d

Advance ==
    /\ pc = "L80"
    /\ state' = NextState(state, next_state)
    /\ log' = <<>>
    /\ IF Break(done)
       THEN /\ stepIter' = 0
            /\ pc' = "L64"
       ELSE /\ pc' = "L68"
            /\ UNCHANGED stepIter
    /\ UNCHANGED <<data, state_size, episodeIter, episode, step, action,
                   next_state, reward, done, now, timestamp, path, result>>
    /\ UNCHANGED <<resets, envLast, epActs, epSteps, epRemembers, doneAt>>
    /\ UNCHANGED <<setupObs, agentObs, runObs, error>>

\* ---- lines 86-92: now = datetime.now(); timestamp = ...; path = ...
\* datetime.now() is naive local wall-clock time: a reading may lie before an
\* earlier reading of the process (clock set back, end of daylight saving).
MakePath ==
    /\ pc = "L86"
    /\ \E t \in 0 .. MaxClock :
        /\ clock' = t
        /\ now' = t
        /\ timestamp' = Strftime(t)
        /\ path' = PathOf(Strftime(t))
    /\ pc' = "L95"
    /\ UNCHANGED <<data, state_size, episodeIter, episode, stepIter, step,
                   state, action, next_state, reward, done, result>>
    /\ UNCHANGED <<setupObs, episodeObs, agentObs, error>>
    /\ UNCHANGED <<scenario, inputData, run, prevPaths>>

\* ---- line 95: model.save_model(path)
SaveArg(p) == p

Save ==
    /\ pc = "L95"
    /\ saved' = Append(saved, SaveArg(path))
    /\ UNCHANGED <<setupObs, episodeObs, memLen, trained>>
    /\ \/ /\ pc' = "L99"
          /\ UNCHANGED <<locals, runObs, error>>
       \/ Raise("save_model")

\* The return the docstring announces: the model, not the path.
ReturnValueModel(p) == <<"model">>

\* ---- line 99: return path
ReturnValue(p) == p

Return ==
    /\ pc = "L99"
    /\ result' = ReturnValue(path)
    /\ pc' = "done"
    /\ UNCHANGED <<data, state_size, episodeIter, episode, stepIter, step,
                   state, action, next_state, reward, done, now, timestamp,
                   path>>
    /\ UNCHANGED <<setupObs, episodeObs, agentObs, runObs, error>>

Next ==
    \/ Drop
    \/ MakeEnv
    \/ GetStateSize
    \/ MakeAgent
    \/ ForEpisode
    \/ Reset
    \/ ForStep
    \/ Act
    \/ EnvStep
    \/ Remember
    \/ CheckMemory
    \/ Replay
    \/ Advance
    \/ MakePath
    \/ Save
    \/ Return

Spec == Init /\ [][Next]_vars

\* The procedure is one sequential control flow: it always takes its next step.
LiveSpec == Init /\ [][Next]_vars /\ WF_vars(Next)

\* ---- the caller invokes train_model again in the same process (line 31):
\* the artifacts of the finished run stay on disk.
NewRun ==
    /\ pc = "done"
    /\ run < MaxRuns
    /\ run' = run + 1
    /\ prevPaths' = prevPaths \cup {saved[1]}
    /\ inputData' = inputData
    /\ UNCHANGED <<scenario, clock>>
    /\ pc' = "L48"
    /\ data' = inputData
    /\ state_size' = None
    /\ episodeIter' = 0
    /\ episode' = None
    /\ stepIter' = 0
    /\ step' = None
    /\ state' = None
    /\ action' = None
    /\ next_state' = None
    /\ reward' = None
    /\ done' = FALSE
    /\ now' = None
    /\ timestamp' = None
    /\ path' = NoPath
    /\ result' = NoPath
    /\ envs' = <<>>
    /\ sizeQueries' = 0
    /\ agents' = <<>>
    /\ resets' = 0
    /\ envLast' = None
    /\ epActs' = 0
    /\ epSteps' = 0
    /\ epRemembers' = 0
    /\ doneAt' = 0
    /\ log' = <<>>
    /\ memLen' = 0
    /\ trained' = 0
    /\ saved' = <<>>
    /\ error' = ""

NextRuns ==
    \/ Next
    \/ NewRun

SpecRuns == Init /\ [][NextRuns]_vars

\* The scenario of an agent whose memory starts empty and grows by one entry
\* per remember.
InitCounting ==
    /\ scenario = "counting"
    /\ inputData \in DataSets
    /\ clock = 0
    /\ run = 1
    /\ prevPaths = {}
    /\ InitRun

SpecCounting == InitCounting /\ [][Next]_vars

(***************************************************************************)
(* Properties                                                              *)
(***************************************************************************)
\* The names of the calls in a round's log, in order.
Ops(l) == [i \in 1 .. Len(l) |-> l[i].op]
RoundShape == <<"act", "step", "remember", "replay">>
IsRoundPrefix(o) == Len(o) <= Len(RoundShape) /\ o = SubSeq(RoundShape, 1, Len(o))
HasReplay(l) == \E i \in 1 .. Len(l) : l[i].op = "replay"
AfterLoop == {"L86", "L95", "L99", "done"}
EpisodeComplete ==
    /\ epActs = epSteps
    /\ epSteps = epRemembers
    /\ epSteps = (IF doneAt # 0 THEN doneAt ELSE MAX_STEPS)

\* A call reached the collaborator in this step of the procedure.
ActCalled == epActs' = epActs + 1
StepCalled == epSteps' = epSteps + 1
RememberCalled == epRemembers' = epRemembers + 1
ReplayCalled == Len(log') = Len(log) + 1 /\ log'[Len(log')].op = "replay"
ResetCalled == resets' = resets + 1
SaveCalled == Len(saved') = Len(saved) + 1

\* C1: an episode performs as many act/env.step/remember rounds as the index
\* of its first done=True step, or MAX_STEPS when no step reported done; no
\* round follows the done one, and the run still resets NUM_EPISODES times.
C1_EarlyTermination ==
    /\ resets <= NUM_EPISODES
    /\ epActs <= MAX_STEPS
    /\ doneAt # 0 =>
          /\ epActs = doneAt
          /\ epSteps = doneAt
          /\ epRemembers \in {doneAt - 1, doneAt}
    /\ (pc = "L64" /\ resets > 0) => EpisodeComplete
    /\ pc \in AfterLoop => (resets = NUM_EPISODES /\ EpisodeComplete)

C1_Witness ==
    /\ pc = "L64"
    /\ resets = NUM_EPISODES
    /\ doneAt = 1
    /\ epSteps = 1
    /\ epActs = 1
    /\ epRemembers = 1

\* C2: in every step replay is invoked exactly once, with argument 64, if and
\* only if the memory length read after that step's remember is above 64.
C2_ReplayIffAboveThreshold ==
    /\ \A i \in 1 .. Len(log) :
          log[i].op = "replay" =>
             /\ i = 4
             /\ log[i].batch_size = 64
             /\ memLen > 64
    /\ pc = "L80" => (HasReplay(log) <=> memLen > 64)

C2_Witness ==
    /\ pc = "L80"
    /\ memLen = 65
    /\ Len(log) = 4
    /\ log[4] = ReplayCall(64)

\* C3: every env.step that returned is followed in the same step by exactly one remember
\* whose arguments are the state passed to act, the action act returned and
\* the reward, next_state and done env.step returned; also on the done step
\* and on steps without replay; remember never comes without its env.step.
C3_RememberEveryTransition ==
    /\ epRemembers <= epSteps
    /\ epSteps <= epRemembers + 1
    /\ epSteps = epRemembers + 1 =>
          \/ pc = "L74"
          \/ pc = "raised" /\ error = "step"
    /\ pc \in {"L77", "L78", "L80"} => Len(log) >= 3
    /\ \A i \in 1 .. Len(log) :
          log[i].op = "remember" =>
             /\ i = 3
             /\ log[1].op = "act"
             /\ log[2].op = "step"
             /\ log[2].action = log[1].ret
             /\ log[3] = RememberCall(log[1].state, log[1].ret, log[2].reward,
                                      log[2].next_state, log[2].done)

C3_Witness ==
    /\ pc = "L80"
    /\ Len(log) = 3
    /\ log[2].done
    /\ log[3].op = "remember"
    /\ log[3].done
    /\ log[3].state # log[3].next_state

C4_Safe ==
    /\ Len(saved) <= 1
    /\ saved # <<>> =>
          /\ pc \in {"L99", "done"} \/ (pc = "raised" /\ error = "save_model")
          /\ saved = <<path>>
          /\ resets = NUM_EPISODES
          /\ EpisodeComplete
    /\ pc = "done" => (Len(saved) = 1 /\ result = saved[1])
    /\ pc # "done" => result = NoPath

\* C4: when no collaborator raises the run terminates; save_model is invoked
\* once, after the last step of the last episode, and the returned value is
\* the path save_model received.
C4_SaveOnceThenReturn == [] C4_Safe /\ <>(pc = "done" \/ error # "")

C4_Witness ==
    /\ pc = "done"
    /\ Len(saved) = 1
    /\ result = saved[1]
    /\ result = PathOf(1)
    /\ resets = NUM_EPISODES

C5_AfterError ==
    /\ error' # "" =>
          /\ pc' = "raised"
          /\ result' = NoPath
          /\ error' # "save_model" => saved' = <<>>
          /\ error' = "save_model" => Len(saved') = 1
    /\ error # "" =>
          /\ UNCHANGED <<setupObs, episodeObs, agentObs>>
          /\ pc' = "raised"

\* C5: an error of a collaborator ends the run at once: the procedure is at
\* "raised", no collaborator receives a call afterwards (the failed call is
\* received once), nothing is returned, and unless the failed call is
\* save_model itself, save_model has not been and is not invoked.
C5_ErrorEndsRun == [][C5_AfterError]_vars

C5_Witness ==
    /\ pc = "raised"
    /\ error = "replay"
    /\ resets = 3
    /\ epRemembers = 2
    /\ saved = <<>>
    /\ result = NoPath

\* C6: one environment, built from the data without the target column, then
\* one state-size query, then one agent built with (state_size, 3), and only
\* then the first reset; no second environment or agent in the run.
C6_SetupOnceInOrder ==
    /\ Len(envs) <= 1
    /\ sizeQueries <= 1
    /\ Len(agents) <= 1
    /\ envs # <<>> => ("target" \notin envs[1] /\ envs[1] = inputData \ {"target"})
    /\ sizeQueries = 1 => Len(envs) = 1
    /\ agents # <<>> =>
          /\ sizeQueries = 1
          /\ state_size \in {Len(sm) : sm \in Samples}
          /\ agents[1] = <<state_size, 3>>
    /\ resets > 0 => (Len(envs) = 1 /\ Len(agents) = 1)

C6_Witness ==
    /\ resets = NUM_EPISODES
    /\ inputData = {"close", "target"}
    /\ envs = <<{"close"}>>
    /\ sizeQueries = 1
    /\ agents = <<(<<2, 3>>)>>

\* C7: two completed runs never pass the same path to save_model.
C7_UniquePaths == saved # <<>> => saved[1] \notin prevPaths

C8_InOrder ==
    /\ IsRoundPrefix(Ops(log'))
    /\ ActCalled =>
          /\ log = <<>>
          /\ resets = episode + 1
          /\ epActs = epSteps /\ epSteps = epRemembers
    /\ StepCalled => Ops(log) = <<"act">>
    /\ RememberCalled => Ops(log) = <<"act", "step">>
    /\ ReplayCalled => Ops(log) = <<"act", "step", "remember">>
    /\ ResetCalled =>
          /\ log = <<>>
          /\ resets = episode
          /\ Len(agents) = 1
          /\ resets > 0 => EpisodeComplete
    /\ SaveCalled =>
          /\ log = <<>>
          /\ resets = NUM_EPISODES
          /\ EpisodeComplete

\* C8: within a step the calls come as act, env.step, remember, then replay;
\* reset comes once per episode, before the episode's first act and after
\* the previous episode's last call; rounds and episodes do not interleave.
C8_StrictSequence == [][C8_InOrder]_vars

C8_Witness ==
    /\ pc = "L80"
    /\ Ops(log) = RoundShape
    /\ resets = 2
    /\ epActs = 2

C9_Threaded ==
    /\ ActCalled => log'[1].state = envLast
    /\ RememberCalled => log'[Len(log')].state = log[1].state

\* C9: act receives the state the environment returned last in this episode
\* (reset's on the first step, the preceding env.step's next_state later),
\* and remember receives the state act received.
C9_StateThreading == [][C9_Threaded]_vars

C9_Witness ==
    /\ pc = "L71"
    /\ resets = 2
    /\ epActs = 3
    /\ log[1].state = envLast
    /\ memLen = 65

\* C10: with the default constants and a memory that grows by one entry per
\* remember, replay is not invoked before the 65th transition of the run,
\* not in the first 6 episodes, and at most 36 times.
C10_DefaultReplayBudget ==
    /\ memLen <= 100
    /\ HasReplay(log) => (memLen >= 65 /\ resets >= 7)
    /\ trained <= 36
    /\ memLen <= 64 => trained = 0
    /\ resets <= 6 => trained = 0

C10_Witness ==
    /\ pc = "done"
    /\ memLen = 100
    /\ trained = 36

====
